---------------------------- MODULE Spec2Model ----------------------------
(***************************************************************************)
(* Model of the Insight Extractor of CLINICAL--INSIGHT-BOT                 *)
(* (src/clinical_insight_bot.py): one ClinicalInsightBot instance, its     *)
(* record self.insight.data, and the calls of process_emr_text made on it. *)
(* Texts are strings; the regular expressions and the keyword scans of the *)
(* source are evaluated character by character on them.                    *)
(***************************************************************************)
EXTENDS Integers, Sequences, FiniteSets, TLC

VARIABLES
    data,     \* self.insight.data: the record of the instance (the returned object too)
    pc,       \* position inside process_emr_text ("idle" between calls)
    text,     \* emr_text of the current (or, when idle, the last) call
    ncalls,   \* calls of process_emr_text that have returned
    now,      \* the clock datetime.now() reads
    log,      \* the events (searches, assignments) of the current call so far, in order
    entry,    \* self.insight.data as it was when the current call began
    arg,      \* the type of the object passed as emr_text to the current (or last) call
    exc       \* the exception the last call ended with, "" when none

vars == <<data, pc, text, ncalls, now, log, entry, arg, exc>>

(***************************************************************************)
(* Bounds of the model.                                                    *)
(***************************************************************************)
MaxCalls == 2      \* calls made on the one instance
MaxFrags == 2      \* fragments concatenated into one input text

(***************************************************************************)
(* Strings: characters, str.lower(), str.upper(), str.title(), str.strip() *)
(* and the `in` substring test.                                            *)
(***************************************************************************)
Ch(s, i) == SubSeq(s, i, i)

UpperLetters == "ABCDEFGHIJKLMNOPQRSTUVWXYZ"
LowerLetters == "abcdefghijklmnopqrstuvwxyz"

\* the lower-case letter of each upper-case letter, and the reverse
ToLower == [c \in {Ch(UpperLetters, k) : k \in 1..26} |->
               Ch(LowerLetters, CHOOSE k \in 1..26 : Ch(UpperLetters, k) = c)]
ToUpper == [c \in {Ch(LowerLetters, k) : k \in 1..26} |->
               Ch(UpperLetters, CHOOSE k \in 1..26 : Ch(LowerLetters, k) = c)]

IsUpperCh(c) == c \in DOMAIN ToLower
IsLowerCh(c) == c \in DOMAIN ToUpper

LowerCh(c) == IF IsUpperCh(c) THEN ToLower[c] ELSE c
UpperCh(c) == IF IsLowerCh(c) THEN ToUpper[c] ELSE c

\* str.lower() and str.upper(), character by character (the string is halved
\* at each level, which keeps the nesting shallow on long texts)
RECURSIVE lower(_)
lower(s) ==
    IF s = "" THEN ""
    ELSE IF Len(s) = 1 THEN LowerCh(s)
    ELSE LET half == Len(s) \div 2
         IN  lower(SubSeq(s, 1, half)) \o lower(SubSeq(s, half + 1, Len(s)))

RECURSIVE upper(_)
upper(s) ==
    IF s = "" THEN ""
    ELSE IF Len(s) = 1 THEN UpperCh(s)
    ELSE LET half == Len(s) \div 2
         IN  upper(SubSeq(s, 1, half)) \o upper(SubSeq(s, half + 1, Len(s)))

\* str.title(): a letter that follows a letter is lower-cased, any other letter
\* is upper-cased, the rest is kept.
RECURSIVE TitleFrom(_, _)
TitleFrom(s, prevCased) ==
    IF s = "" THEN ""
    ELSE LET c == Ch(s, 1)
             cased == IsUpperCh(c) \/ IsLowerCh(c)
         IN  (IF prevCased THEN LowerCh(c) ELSE UpperCh(c))
                 \o TitleFrom(SubSeq(s, 2, Len(s)), cased)

title(s) == TitleFrom(s, FALSE)

Whitespace == {" ", "\t", "\n", "\r", "\f"}

RECURSIVE lstrip(_)
lstrip(s) == IF s # "" /\ Ch(s, 1) \in Whitespace THEN lstrip(SubSeq(s, 2, Len(s))) ELSE s

RECURSIVE rstrip(_)
rstrip(s) ==
    IF s # "" /\ Ch(s, Len(s)) \in Whitespace THEN rstrip(SubSeq(s, 1, Len(s) - 1)) ELSE s

strip(s) == rstrip(lstrip(s))

\* lit occurs in s at position i
At(s, i, lit) == i + Len(lit) - 1 <= Len(s) /\ SubSeq(s, i, i + Len(lit) - 1) = lit

\* `lit in s`
Contains(s, lit) == \E i \in 1..(Len(s) + 1) : At(s, i, lit)


(***************************************************************************)
(* Regular expressions (Python's re): a pattern is a sequence of items,    *)
(* matched left to right with backtracking, greedy unless stated, exactly  *)
(* one capture group per pattern at most.                                  *)
(***************************************************************************)
Digits == {"0", "1", "2", "3", "4", "5", "6", "7", "8", "9"}

Lit(l)      == [t |-> "lit", s |-> l]                    \* literal text
Cls(c)      == [t |-> "cls", c |-> c, neg |-> FALSE]        \* [...]
NotCls(c)   == [t |-> "cls", c |-> c, neg |-> TRUE]         \* [^...]
Star(n)     == [t |-> "star", n |-> n, min |-> 0]           \* n*  (n one character)
Plus(n)     == [t |-> "star", n |-> n, min |-> 1]           \* n+
LazyStar(n) == [t |-> "lazy", n |-> n]                      \* n*?
Opt(r)      == [t |-> "opt", r |-> r]                       \* (?:r)?
Alt(a)      == [t |-> "alt", a |-> a]                       \* (?:a1|a2|...)
Grp(r)      == [t |-> "grp", r |-> r]                       \* (r), the capture group
WordB       == [t |-> "wordb"]                              \* \b
CapEnd(i)   == [t |-> "capend", from |-> i]                 \* closes the group opened at i

S     == Cls(Whitespace)       \* \s
D     == Cls(Digits)           \* \d
AnyCh == NotCls({"\n"})        \* .

NoMatch == [ok |-> FALSE, b |-> 0, e |-> 0, cs |-> 0, ce |-> 0]

ClsAt(n, s, i) == i <= Len(s) /\ ((Ch(s, i) \in n.c) # n.neg)

IsWordCh(s, i) ==
    /\ 1 <= i /\ i <= Len(s)
    /\ LET c == Ch(s, i) IN IsUpperCh(c) \/ IsLowerCh(c) \/ c \in Digits \/ c = "_"

RECURSIVE RunLen(_, _, _)
RunLen(n, s, i) == IF ClsAt(n, s, i) THEN 1 + RunLen(n, s, i + 1) ELSE 0

RECURSIVE Match(_, _, _, _), StarTry(_, _, _, _, _, _), LazyTry(_, _, _, _, _, _),
          AltTry(_, _, _, _, _)

\* The match of the items at position i of s, or NoMatch; cap is the span
\* of the capture group so far.
Match(items, s, i, cap) ==
    IF Len(items) = 0
    THEN [ok |-> TRUE, b |-> 0, e |-> i, cs |-> cap[1], ce |-> cap[2]]
    ELSE LET h == Head(items)
             rest == Tail(items)
         IN  CASE h.t = "lit" ->
                     IF At(s, i, h.s) THEN Match(rest, s, i + Len(h.s), cap) ELSE NoMatch
               [] h.t = "cls" ->
                     IF ClsAt(h, s, i) THEN Match(rest, s, i + 1, cap) ELSE NoMatch
               [] h.t = "star" -> StarTry(h, rest, s, i, i + RunLen(h.n, s, i), cap)
               [] h.t = "lazy" -> LazyTry(h, rest, s, i, i, cap)
               [] h.t = "opt" ->
                     LET m == Match(h.r \o rest, s, i, cap)
                     IN  IF m.ok THEN m ELSE Match(rest, s, i, cap)
               [] h.t = "alt" -> AltTry(h.a, rest, s, i, cap)
               [] h.t = "grp" -> Match(h.r \o <<CapEnd(i)>> \o rest, s, i, cap)
               [] h.t = "capend" -> Match(rest, s, i, <<h.from, i>>)
               [] h.t = "wordb" ->
                     IF IsWordCh(s, i - 1) # IsWordCh(s, i)
                     THEN Match(rest, s, i, cap) ELSE NoMatch

\* greedy repetition: the longest run first, then shorter ones
StarTry(h, rest, s, i, j, cap) ==
    IF j < i + h.min THEN NoMatch
    ELSE LET m == Match(rest, s, j, cap)
         IN  IF m.ok THEN m ELSE StarTry(h, rest, s, i, j - 1, cap)

\* lazy repetition: the shortest run first, then longer ones
LazyTry(h, rest, s, i, j, cap) ==
    LET m == Match(rest, s, j, cap)
    IN  IF m.ok THEN m
        ELSE IF ClsAt(h.n, s, j) THEN LazyTry(h, rest, s, i, j + 1, cap) ELSE NoMatch

\* alternation: the alternatives in order
AltTry(alts, rest, s, i, cap) ==
    IF Len(alts) = 0 THEN NoMatch
    ELSE LET m == Match(Head(alts) \o rest, s, i, cap)
         IN  IF m.ok THEN m ELSE AltTry(Tail(alts), rest, s, i, cap)

\* the match that begins leftmost among the positions lo..hi of s (the lower
\* half of the range is tried first, then the upper half)
RECURSIVE SearchIn(_, _, _, _)
SearchIn(pattern, s, lo, hi) ==
    IF lo > hi THEN NoMatch
    ELSE IF lo = hi
         THEN LET m == Match(pattern, s, lo, <<0, 0>>)
              IN  IF m.ok THEN [m EXCEPT !.b = lo] ELSE NoMatch
         ELSE LET mid == (lo + hi) \div 2
                  m == SearchIn(pattern, s, lo, mid)
              IN  IF m.ok THEN m ELSE SearchIn(pattern, s, mid + 1, hi)

\* re.search(pattern, s): the leftmost match
search(pattern, s) == SearchIn(pattern, s, 1, Len(s) + 1)

group0(m, s) == SubSeq(s, m.b, m.e - 1)      \* match.group(0)
group1(m, s) == SubSeq(s, m.cs, m.ce - 1)    \* match.group(1)

(***************************************************************************)
(* ClinicalInsight: the record as constructed, every leaf the sentinel.    *)
(***************************************************************************)
Sentinel == "Not Found"

ClinicalInsight ==
    [patient_info |->
        [age |-> Sentinel, weight |-> Sentinel, height |-> Sentinel, gender |-> Sentinel],
     pre_operative |->
        [asa_status |-> Sentinel,
         allergies |-> Sentinel,
         medications |->
            [anticoagulants |-> Sentinel, insulin |-> Sentinel,
             cardiac_meds |-> Sentinel, other_relevant |-> Sentinel],
         comorbidities |->
            [cardiac |-> Sentinel, pulmonary |-> Sentinel, renal |-> Sentinel,
             hepatic |-> Sentinel, neurologic |-> Sentinel, endocrine |-> Sentinel],
         airway_assessment |->
            [mallampati |-> Sentinel, mouth_opening |-> Sentinel,
             neck_mobility |-> Sentinel, thyromental_distance |-> Sentinel,
             dentition |-> Sentinel, predicted_difficulty |-> Sentinel],
         laboratory_values |->
            [hemoglobin |-> Sentinel, platelet_count |-> Sentinel,
             inr_pt_ptt |-> Sentinel, creatinine |-> Sentinel,
             glucose |-> Sentinel, electrolytes |-> Sentinel],
         device_implants |-> Sentinel,
         npo_status |-> Sentinel],
     surgical_plan |->
        [procedure |-> Sentinel, surgical_position |-> Sentinel,
         estimated_duration |-> Sentinel, surgeon |-> Sentinel, approach |-> Sentinel],
     intra_operative |->
        [special_monitoring |-> Sentinel, vascular_access |-> Sentinel,
         blood_products |-> Sentinel, regional_anesthesia |-> Sentinel,
         temperature_management |-> Sentinel, fluid_management |-> Sentinel],
     post_operative |->
        [planned_disposition |-> Sentinel, pain_management |-> Sentinel,
         icu_monitoring |-> Sentinel, ventilator_weaning |-> Sentinel],
     risk_assessment |->
        [aspiration_risk |-> Sentinel, difficult_airway |-> Sentinel,
         cardiac_risk |-> Sentinel, bleeding_risk |-> Sentinel]]

\* The paths of the leaves of the schema.
Under(prefix, names) == {prefix \o <<n>> : n \in names}

LeafPaths ==
    Under(<<"patient_info">>, {"age", "weight", "height", "gender"})
    \cup Under(<<"pre_operative">>, {"asa_status", "allergies", "device_implants", "npo_status"})
    \cup Under(<<"pre_operative", "medications">>,
               {"anticoagulants", "insulin", "cardiac_meds", "other_relevant"})
    \cup Under(<<"pre_operative", "comorbidities">>,
               {"cardiac", "pulmonary", "renal", "hepatic", "neurologic", "endocrine"})
    \cup Under(<<"pre_operative", "airway_assessment">>,
               {"mallampati", "mouth_opening", "neck_mobility", "thyromental_distance",
                "dentition", "predicted_difficulty"})
    \cup Under(<<"pre_operative", "laboratory_values">>,
               {"hemoglobin", "platelet_count", "inr_pt_ptt", "creatinine",
                "glucose", "electrolytes"})
    \cup Under(<<"surgical_plan">>,
               {"procedure", "surgical_position", "estimated_duration", "surgeon", "approach"})
    \cup Under(<<"intra_operative">>,
               {"special_monitoring", "vascular_access", "blood_products",
                "regional_anesthesia", "temperature_management", "fluid_management"})
    \cup Under(<<"post_operative">>,
               {"planned_disposition", "pain_management", "icu_monitoring",
                "ventilator_weaning"})
    \cup Under(<<"risk_assessment">>,
               {"aspiration_risk", "difficult_airway", "cardiac_risk", "bleeding_risk"})

\* d[p1][p2]...
RECURSIVE Get(_, _)
Get(d, path) == IF Len(path) = 0 THEN d ELSE Get(d[Head(path)], Tail(path))

\* d[p1][p2]... = v
RECURSIVE Set(_, _, _)
Set(d, path, v) ==
    IF Len(path) = 1
    THEN [d EXCEPT ![path[1]] = v]
    ELSE [d EXCEPT ![path[1]] = Set(d[path[1]], Tail(path), v)]

\* whether d holds a value under every key of the path
RECURSIVE HasPath(_, _)
HasPath(d, path) ==
    \/ Len(path) = 0
    \/ /\ Head(path) \in DOMAIN d
       /\ HasPath(d[Head(path)], Tail(path))

(***************************************************************************)
(* ClinicalInsightBot.__init__: self.patterns and self.keywords.           *)
(***************************************************************************)
OptLit(l) == Opt(<<Lit(l)>>)
Number == Grp(<<Plus(D), OptLit("."), Star(D)>>)        \* (\d+\.?\d*)
WeightUnit == Alt(<< <<Lit("kg")>>, <<Lit("pound"), OptLit("s")>>, <<Lit("lb"), OptLit("s")>> >>)
AsaClass == Grp(<<Plus(Cls({"I", "1", "2", "3", "4", "5", "6", "V"}))>>)   \* ([I1-6V]+)
Span == Grp(<<Plus(NotCls({".", "\n"}))>>)              \* ([^.\n]+)

patterns ==
    [age |-> <<
        <<Grp(<<Plus(D)>>), Opt(<<Cls({"-"} \cup Whitespace)>>),
          Alt(<< <<Lit("year")>>, <<Lit("yr")>>, <<Lit("yo")>> >>), Opt(<<S>>), OptLit("old")>>,
        <<Lit("age"), OptLit(":"), Star(S), Grp(<<Plus(D)>>)>>,
        <<Grp(<<Plus(D)>>), Opt(<<S>>), Lit("y"), OptLit("."), Lit("o"), OptLit(".")>> >>,
     weight |-> <<
        <<Lit("weight"), OptLit(":"), Star(S), Number, Star(S), WeightUnit>>,
        <<Number, Star(S), WeightUnit>> >>,
     height |-> <<
        <<Lit("height"), OptLit(":"), Star(S), Number, Star(S),
          Alt(<< <<Lit("cm")>>, <<Lit("inche"), OptLit("s")>>, <<Lit("in")>>, <<Lit("ft")>> >>)>>,
        <<Number, Star(S),
          Alt(<< <<Lit("cm")>>, <<Lit("inche"), OptLit("s")>>, <<Lit("in")>> >>)>> >>,
     gender |-> <<
        <<Alt(<< <<Lit("gender")>>, <<Lit("sex")>> >>), OptLit(":"), Star(S),
          Grp(<<Alt(<< <<Lit("male")>>, <<Lit("female")>>, <<Lit("m")>>, <<Lit("f")>> >>)>>)>>,
        <<WordB, Grp(<<Alt(<< <<Lit("male")>>, <<Lit("female")>> >>)>>), WordB>> >>,
     asa |-> <<
        <<Lit("ASA"), Star(S),
          Opt(<<Alt(<< <<Lit("status")>>, <<Lit("class")>>, <<Lit("classification")>> >>)>>),
          OptLit(":"), Star(S), AsaClass>>,
        <<Lit("ASA"), Star(S), AsaClass>>,
        <<Lit("American Society"), LazyStar(AnyCh), AsaClass>> >>,
     allergies |-> <<
        <<Alt(<< <<Lit("allergie"), OptLit("s")>>, <<Lit("NKDA")>>, <<Lit("NKA")>> >>),
          OptLit(":"), Star(S), Span>>,
        <<Lit("allergic to"), OptLit(":"), Star(S), Span>>,
        <<Lit("allergy"), OptLit(":"), Star(S), Span>> >>]

keywords ==
    [anticoagulants |-> <<"warfarin", "coumadin", "heparin", "rivaroxaban", "xarelto",
                          "apixaban", "eliquis", "dabigatran", "pradaxa", "aspirin",
                          "plavix", "clopidogrel">>,
     cardiac_conditions |-> <<"hypertension", "CAD", "coronary artery disease", "MI",
                              "myocardial infarction", "CHF", "heart failure",
                              "arrhythmia", "atrial fibrillation", "valve disease">>,
     pulmonary_conditions |-> <<"COPD", "asthma", "sleep apnea", "OSA",
                                "pulmonary embolism", "pneumonia", "lung disease">>,
     renal_conditions |-> <<"chronic kidney disease", "CKD", "renal failure", "dialysis",
                            "kidney disease">>,
     diabetes |-> <<"diabetes", "DM", "insulin", "metformin", "diabetic">>,
     surgical_positions |-> <<"supine", "prone", "lateral", "lithotomy", "trendelenburg",
                              "reverse trendelenburg", "sitting", "beach chair">>]

(***************************************************************************)
(* The sub-extractors.  Each is the sequence of events it performs on the  *)
(* text, in program order: "write" is an assignment                        *)
(* self.insight.data[...] = val, "search" is one re.search of a pattern    *)
(* list (val names the pattern).  None of them reads self.insight.data.    *)
(***************************************************************************)
Wr(path, v) == [k |-> "write", leaf |-> path, val |-> v]
Called(name) == [k |-> "call", leaf |-> <<name>>, val |-> ""]
Tried(name, i) == [k |-> "search", leaf |-> <<name>>, val |-> <<"0", "1", "2">>[i]]

\* for pattern in pats: match = re.search(pattern, s); if match: ...; break
RECURSIVE PatternLoop(_, _, _, _)
PatternLoop(name, pats, s, i) ==
    IF i > Len(pats) THEN [ev |-> <<>>, m |-> NoMatch]
    ELSE LET m == search(pats[i], s)
         IN  IF m.ok THEN [ev |-> <<Tried(name, i)>>, m |-> m]
             ELSE LET r == PatternLoop(name, pats, s, i + 1)
                  IN  [ev |-> <<Tried(name, i)>> \o r.ev, m |-> r.m]

\* the keyword scan stopping at its first hit
KeywordsIn_first(words, s) ==
    LET found == SelectSeq(words, LAMBDA w : Contains(s, w))
    IN  IF Len(found) = 0 THEN <<>> ELSE <<found[1]>>

\* [k for k in words if k in s]
KeywordsIn(words, s) == SelectSeq(words, LAMBDA w : Contains(s, w))

\* any(term in s for term in words)
AnyIn(words, s) == \E i \in 1..Len(words) : Contains(s, words[i])

\* sep.join(parts)
RECURSIVE join(_, _)
join(sep, parts) ==
    IF Len(parts) = 0 THEN ""
    ELSE IF Len(parts) = 1 THEN parts[1]
    ELSE parts[1] \o sep \o join(sep, Tail(parts))

TitleAll(words) == [i \in 1..Len(words) |-> title(words[i])]

\* extract_patient_info as it would be with text = str(text) first: any object
\* is converted and nothing is raised
extract_patient_info_converts(type) == ""

\* The exception extract_patient_info raises on an argument of the type, ""
\* when none: text.lower() needs the attribute (str and bytes have it), and
\* re.search of a str pattern needs a str.
extract_patient_info_raises(type) ==
    IF type \notin {"str", "bytes"} THEN "AttributeError"
    ELSE IF type # "str" THEN "TypeError"
    ELSE ""

gender_of(token) == IF token \in {"male", "m"} THEN "Male" ELSE "Female"

extract_patient_info(emr) ==
    LET text_lower == lower(emr)
        age == PatternLoop("age", patterns.age, text_lower, 1)
        weight == PatternLoop("weight", patterns.weight, text_lower, 1)
        height == PatternLoop("height", patterns.height, text_lower, 1)
        gender == PatternLoop("gender", patterns.gender, text_lower, 1)
    IN  age.ev
        \o (IF age.m.ok
            THEN <<Wr(<<"patient_info", "age">>, group1(age.m, text_lower) \o " years")>>
            ELSE <<>>)
        \o weight.ev
        \o (IF weight.m.ok
            THEN <<Wr(<<"patient_info", "weight">>, group0(weight.m, text_lower))>>
            ELSE <<>>)
        \o height.ev
        \o (IF height.m.ok
            THEN <<Wr(<<"patient_info", "height">>, group0(height.m, text_lower))>>
            ELSE <<>>)
        \o gender.ev
        \o (IF gender.m.ok
            THEN <<Wr(<<"patient_info", "gender">>,
                      gender_of(lower(group1(gender.m, text_lower))))>>
            ELSE <<>>)

\* "ASA " followed by the captured class
asa_format(class) == "ASA " \o class

\* the text lower-cased, as the other sub-extractors search it
asa_subject_lower(emr) == lower(emr)

\* the text as extract_asa_status hands it to re.search
asa_subject(emr) == upper(emr)

extract_asa_status(emr) ==
    LET subject == asa_subject(emr)
        asa == PatternLoop("asa", patterns.asa, subject, 1)
    IN  asa.ev
        \o (IF asa.m.ok
            THEN <<Wr(<<"pre_operative", "asa_status">>, asa_format(group1(asa.m, subject)))>>
            ELSE <<>>)

NKDA == "NKDA (No Known Drug Allergies)"

\* the loop over the allergy patterns without its break: every pattern is
\* searched and every kept span assigned
RECURSIVE AllergyLoop_no_break(_, _)
AllergyLoop_no_break(s, i) ==
    IF i > Len(patterns.allergies) THEN <<>>
    ELSE LET m == search(patterns.allergies[i], s)
             allergy_text == strip(group1(m, s))
         IN  <<Tried("allergies", i)>>
             \o (IF m.ok /\ allergy_text # "" /\ Len(allergy_text) > 2
                 THEN <<Wr(<<"pre_operative", "allergies">>, title(allergy_text))>>
                 ELSE <<>>)
             \o AllergyLoop_no_break(s, i + 1)

\* for pattern in self.patterns['allergies']: ... break only when the span is kept
RECURSIVE AllergyLoop(_, _)
AllergyLoop(s, i) ==
    IF i > Len(patterns.allergies) THEN <<>>
    ELSE LET m == search(patterns.allergies[i], s)
             allergy_text == strip(group1(m, s))
         IN  <<Tried("allergies", i)>>
             \o (IF m.ok /\ allergy_text # "" /\ Len(allergy_text) > 2
                 THEN <<Wr(<<"pre_operative", "allergies">>, title(allergy_text))>>
                 ELSE AllergyLoop(s, i + 1))

\* extract_allergies without the return after the nkda assignment
extract_allergies_no_return(emr) ==
    LET text_lower == lower(emr)
    IN  (IF Contains(text_lower, "nkda") \/ Contains(text_lower, "nka")
         THEN <<Wr(<<"pre_operative", "allergies">>, NKDA)>>
         ELSE <<>>)
        \o AllergyLoop(text_lower, 1)

extract_allergies(emr) ==
    LET text_lower == lower(emr)
    IN  IF Contains(text_lower, "nkda") \/ Contains(text_lower, "nka")
        THEN <<Wr(<<"pre_operative", "allergies">>, NKDA)>>
        ELSE AllergyLoop(text_lower, 1)

diabetes_agents == <<"insulin", "metformin", "glipizide", "glyburide">>
cardiac_meds == <<"beta blocker", "ace inhibitor", "lisinopril", "metoprolol", "atenolol",
                  "amlodipine">>

\* extract_medications that also marks the endocrine comorbidity when it finds
\* a diabetes agent
extract_medications_marks_endocrine(emr) ==
    LET text_lower == lower(emr)
        anticoag_found == TitleAll(KeywordsIn(keywords.anticoagulants, text_lower))
        diabetes_meds == TitleAll(KeywordsIn(diabetes_agents, text_lower))
        cardiac_found == TitleAll(KeywordsIn(cardiac_meds, text_lower))
    IN  (IF Len(anticoag_found) > 0
         THEN <<Wr(<<"pre_operative", "medications", "anticoagulants">>,
                   join(", ", anticoag_found))>>
         ELSE <<>>)
        \o (IF AnyIn(diabetes_agents, text_lower)
            THEN <<Wr(<<"pre_operative", "medications", "insulin">>,
                      join(", ", diabetes_meds)),
                   Wr(<<"pre_operative", "comorbidities", "endocrine">>, "diabetes")>>
            ELSE <<>>)
        \o (IF Len(cardiac_found) > 0
            THEN <<Wr(<<"pre_operative", "medications", "cardiac_meds">>,
                      join(", ", cardiac_found))>>
            ELSE <<>>)

extract_medications(emr) ==
    LET text_lower == lower(emr)
        anticoag_found == TitleAll(KeywordsIn(keywords.anticoagulants, text_lower))
        diabetes_meds == TitleAll(KeywordsIn(diabetes_agents, text_lower))
        cardiac_found == TitleAll(KeywordsIn(cardiac_meds, text_lower))
    IN  (IF Len(anticoag_found) > 0
         THEN <<Wr(<<"pre_operative", "medications", "anticoagulants">>,
                   join(", ", anticoag_found))>>
         ELSE <<>>)
        \o (IF AnyIn(diabetes_agents, text_lower)
            THEN <<Wr(<<"pre_operative", "medications", "insulin">>,
                      join(", ", diabetes_meds))>>
            ELSE <<>>)
        \o (IF Len(cardiac_found) > 0
            THEN <<Wr(<<"pre_operative", "medications", "cardiac_meds">>,
                      join(", ", cardiac_found))>>
            ELSE <<>>)

\* one keyword list of extract_comorbidities
Conditions(field, words, s) ==
    LET found == KeywordsIn(words, s)
    IN  IF Len(found) > 0
        THEN <<Wr(<<"pre_operative", "comorbidities", field>>, join(", ", found))>>
        ELSE <<>>

\* extract_comorbidities with the diabetes terms assigned to medications.insulin
extract_comorbidities_insulin(emr) ==
    LET text_lower == lower(emr)
        diabetes_terms == KeywordsIn(keywords.diabetes, text_lower)
    IN  Conditions("cardiac", keywords.cardiac_conditions, text_lower)
        \o Conditions("pulmonary", keywords.pulmonary_conditions, text_lower)
        \o Conditions("renal", keywords.renal_conditions, text_lower)
        \o (IF Len(diabetes_terms) > 0
            THEN <<Wr(<<"pre_operative", "medications", "insulin">>,
                      join(", ", diabetes_terms))>>
            ELSE <<>>)

extract_comorbidities(emr) ==
    LET text_lower == lower(emr)
    IN  Conditions("cardiac", keywords.cardiac_conditions, text_lower)
        \o Conditions("pulmonary", keywords.pulmonary_conditions, text_lower)
        \o Conditions("renal", keywords.renal_conditions, text_lower)
        \o Conditions("endocrine", keywords.diabetes, text_lower)

\* the hemoglobin pattern with a whole number, (\d+), as the platelet pattern has
hgb_pattern_whole ==
    <<Alt(<< <<Lit("hemoglobin")>>, <<Lit("hgb")>>, <<Lit("hb")>> >>),
      OptLit(":"), Star(S), Grp(<<Plus(D)>>)>>

\* (?:hemoglobin|hgb|hb):?\s*(\d+\.?\d*)
hgb_pattern ==
    <<Alt(<< <<Lit("hemoglobin")>>, <<Lit("hgb")>>, <<Lit("hb")>> >>),
      OptLit(":"), Star(S), Number>>
\* (?:platelet|plt):?\s*(\d+)
plt_pattern ==
    <<Alt(<< <<Lit("platelet")>>, <<Lit("plt")>> >>), OptLit(":"), Star(S), Grp(<<Plus(D)>>)>>
\* inr:?\s*(\d+\.?\d*)
inr_pattern == <<Lit("inr"), OptLit(":"), Star(S), Number>>
\* the creatinine pattern with the colon required, (?:creatinine|cr):\s*(\d+\.?\d*)
cr_pattern_colon ==
    <<Alt(<< <<Lit("creatinine")>>, <<Lit("cr")>> >>), Lit(":"), Star(S), Number>>

\* (?:creatinine|cr):?\s*(\d+\.?\d*)
cr_pattern ==
    <<Alt(<< <<Lit("creatinine")>>, <<Lit("cr")>> >>), OptLit(":"), Star(S), Number>>

hgb_format(value) == value \o " g/dL"

extract_lab_values(emr) ==
    LET text_lower == lower(emr)
        hgb_match == search(hgb_pattern, text_lower)
        plt_match == search(plt_pattern, text_lower)
        inr_match == search(inr_pattern, text_lower)
        cr_match == search(cr_pattern, text_lower)
        lab == <<"pre_operative", "laboratory_values">>
    IN  (IF hgb_match.ok
         THEN <<Wr(lab \o <<"hemoglobin">>, hgb_format(group1(hgb_match, text_lower)))>>
         ELSE <<>>)
        \o (IF plt_match.ok
            THEN <<Wr(lab \o <<"platelet_count">>, group1(plt_match, text_lower) \o " K/uL")>>
            ELSE <<>>)
        \o (IF inr_match.ok
            THEN <<Wr(lab \o <<"inr_pt_ptt">>, "INR " \o group1(inr_match, text_lower))>>
            ELSE <<>>)
        \o (IF cr_match.ok
            THEN <<Wr(lab \o <<"creatinine">>, group1(cr_match, text_lower) \o " mg/dL")>>
            ELSE <<>>)

procedure_patterns ==
    << <<Alt(<< <<Lit("procedure")>>, <<Lit("surgery")>>, <<Lit("operation")>> >>),
         OptLit(":"), Star(S), Span>>,
       <<Lit("scheduled for"), OptLit(":"), Star(S), Span>>,
       <<Lit("undergoing"), OptLit(":"), Star(S), Span>> >>

\* (?:duration|time):?\s*(\d+\.?\d*)\s*(?:hours?|hrs?|minutes?|mins?)
duration_pattern ==
    <<Alt(<< <<Lit("duration")>>, <<Lit("time")>> >>), OptLit(":"), Star(S), Number, Star(S),
      Alt(<< <<Lit("hour"), OptLit("s")>>, <<Lit("hr"), OptLit("s")>>,
             <<Lit("minute"), OptLit("s")>>, <<Lit("min"), OptLit("s")>> >>)>>

RECURSIVE ProcedureLoop(_, _)
ProcedureLoop(s, i) ==
    IF i > Len(procedure_patterns) THEN <<>>
    ELSE LET m == search(procedure_patterns[i], s)
             procedure == strip(group1(m, s))
         IN  <<Tried("procedure", i)>>
             \o (IF m.ok /\ Len(procedure) > 3
                 THEN <<Wr(<<"surgical_plan", "procedure">>, title(procedure))>>
                 ELSE ProcedureLoop(s, i + 1))

\* the position scan as an accumulate-all scan, like the medication lists
PositionLoop_all(s, i) ==
    LET found == KeywordsIn(keywords.surgical_positions, s)
    IN  IF Len(found) > 0
        THEN <<Wr(<<"surgical_plan", "surgical_position">>, join(", ", TitleAll(found)))>>
        ELSE <<>>

\* the position scan without the break: every keyword found is assigned in turn
RECURSIVE PositionLoop_no_break(_, _)
PositionLoop_no_break(s, i) ==
    IF i > Len(keywords.surgical_positions) THEN <<>>
    ELSE (IF Contains(s, keywords.surgical_positions[i])
          THEN <<Wr(<<"surgical_plan", "surgical_position">>,
                    title(keywords.surgical_positions[i]))>>
          ELSE <<>>)
         \o PositionLoop_no_break(s, i + 1)

\* for position in self.keywords['surgical_positions']: if position in s: ...; break
RECURSIVE PositionLoop(_, _)
PositionLoop(s, i) ==
    IF i > Len(keywords.surgical_positions) THEN <<>>
    ELSE IF Contains(s, keywords.surgical_positions[i])
         THEN <<Wr(<<"surgical_plan", "surgical_position">>,
                   title(keywords.surgical_positions[i]))>>
         ELSE PositionLoop(s, i + 1)

extract_surgical_plan(emr) ==
    LET text_lower == lower(emr)
        duration_match == search(duration_pattern, text_lower)
    IN  ProcedureLoop(text_lower, 1)
        \o PositionLoop(text_lower, 1)
        \o (IF duration_match.ok
            THEN <<Wr(<<"surgical_plan", "estimated_duration">>,
                      group0(duration_match, text_lower))>>
            ELSE <<>>)

\* mallampati:?\s*([1-4IV]+)
mallampati_pattern ==
    <<Lit("mallampati"), OptLit(":"), Star(S),
      Grp(<<Plus(Cls({"1", "2", "3", "4", "I", "V"}))>>)>>
\* mouth opening:?\s*(\d+\.?\d*)\s*(?:cm|fingerbreadths?)
mouth_pattern ==
    <<Lit("mouth opening"), OptLit(":"), Star(S), Number, Star(S),
      Alt(<< <<Lit("cm")>>, <<Lit("fingerbreadth"), OptLit("s")>> >>)>>

\* extract_airway_assessment carrying a predicted difficulty over to
\* risk_assessment.difficult_airway
extract_airway_assessment_flags_risk(emr) ==
    LET text_lower == lower(emr)
        mallampati_match == search(mallampati_pattern, text_lower)
        mouth_match == search(mouth_pattern, text_lower)
        airway == <<"pre_operative", "airway_assessment">>
    IN  (IF mallampati_match.ok
         THEN <<Wr(airway \o <<"mallampati">>,
                   "Class " \o group1(mallampati_match, text_lower))>>
         ELSE <<>>)
        \o (IF mouth_match.ok
            THEN <<Wr(airway \o <<"mouth_opening">>, group0(mouth_match, text_lower))>>
            ELSE <<>>)
        \o (IF AnyIn(<<"difficult airway", "difficult intubation", "short neck",
                       "limited neck mobility">>, text_lower)
            THEN <<Wr(airway \o <<"predicted_difficulty">>, "Potentially difficult"),
                   Wr(<<"risk_assessment", "difficult_airway">>, "Elevated")>>
            ELSE <<>>)

extract_airway_assessment(emr) ==
    LET text_lower == lower(emr)
        mallampati_match == search(mallampati_pattern, text_lower)
        mouth_match == search(mouth_pattern, text_lower)
        airway == <<"pre_operative", "airway_assessment">>
    IN  (IF mallampati_match.ok
         THEN <<Wr(airway \o <<"mallampati">>,
                   "Class " \o group1(mallampati_match, text_lower))>>
         ELSE <<>>)
        \o (IF mouth_match.ok
            THEN <<Wr(airway \o <<"mouth_opening">>, group0(mouth_match, text_lower))>>
            ELSE <<>>)
        \o (IF AnyIn(<<"difficult airway", "difficult intubation", "short neck",
                       "limited neck mobility">>, text_lower)
            THEN <<Wr(airway \o <<"predicted_difficulty">>, "Potentially difficult")>>
            ELSE <<>>)

high_cardiac_terms ==
    <<"recent mi", "unstable angina", "severe aortic stenosis", "decompensated chf">>

\* the cardiac terms tested by two separate ifs, not if/elif
cardiac_risk_two_ifs(text_lower) ==
    (IF AnyIn(high_cardiac_terms, text_lower)
     THEN <<Wr(<<"risk_assessment", "cardiac_risk">>, "High")>>
     ELSE <<>>)
    \o (IF AnyIn(keywords.cardiac_conditions, text_lower)
        THEN <<Wr(<<"risk_assessment", "cardiac_risk">>, "Moderate")>>
        ELSE <<>>)

\* the cardiac tier without its elif branch: only the high-severity terms count
cardiac_risk_high_only(text_lower) ==
    IF AnyIn(high_cardiac_terms, text_lower)
    THEN <<Wr(<<"risk_assessment", "cardiac_risk">>, "High")>>
    ELSE <<>>

\* the if/elif on the cardiac terms of assess_risks
cardiac_risk_of(text_lower) ==
    IF AnyIn(high_cardiac_terms, text_lower)
    THEN <<Wr(<<"risk_assessment", "cardiac_risk">>, "High")>>
    ELSE IF AnyIn(keywords.cardiac_conditions, text_lower)
         THEN <<Wr(<<"risk_assessment", "cardiac_risk">>, "Moderate")>>
         ELSE <<>>

assess_risks(emr) ==
    LET text_lower == lower(emr)
    IN  (IF AnyIn(<<"not npo", "recent meal", "full stomach", "gastroparesis", "gerd">>,
                  text_lower)
         THEN <<Wr(<<"risk_assessment", "aspiration_risk">>, "Elevated")>>
         ELSE IF AnyIn(<<"npo", "fasting">>, text_lower)
              THEN <<Wr(<<"risk_assessment", "aspiration_risk">>, "Standard")>>
              ELSE <<>>)
        \o cardiac_risk_of(text_lower)
        \o (IF AnyIn(<<"anticoagulant", "bleeding disorder", "thrombocytopenia">>, text_lower)
            THEN <<Wr(<<"risk_assessment", "bleeding_risk">>, "Elevated")>>
            ELSE <<>>)

(***************************************************************************)
(* process_emr_text, statement by statement.  The instance is created once *)
(* (Init) and every call works on the same self.insight.data, which is     *)
(* also the object the call returns.  A caller may call one instance again *)
(* and again: EpicFHIRClient keeps one bot for all its patients            *)
(* (epic_integration.py, self.insight_bot).                                *)
(***************************************************************************)
RECURSIVE Apply(_, _)
Apply(d, events) ==
    IF Len(events) = 0 THEN d
    ELSE LET e == Head(events)
         IN  Apply(IF e.k = "write" THEN Set(d, e.leaf, e.val) ELSE d, Tail(events))

\* the metadata of a call that reads the clock at time t
Metadata(t) ==
    [processed_timestamp |-> t,
     version |-> "1.0",
     extraction_confidence |-> "Automated extraction - verify critical values"]

\* d['metadata'] = m
WithMetadata(d, m) ==
    [key \in DOMAIN d \cup {"metadata"} |-> IF key = "metadata" THEN m ELSE d[key]]

\* the object a call returns
Returned == data

Init ==
    /\ data = ClinicalInsight
    /\ pc = "idle"
    /\ text = ""
    /\ ncalls = 0
    /\ now = 0
    /\ log = <<>>
    /\ entry = ClinicalInsight
    /\ arg = "str"
    /\ exc = ""

process_emr_text(emr_text) ==
    /\ pc = "idle"
    /\ ncalls < MaxCalls
    /\ pc' = "extract_patient_info"
    /\ text' = emr_text
    /\ now' = now + 1
    /\ log' = <<>>
    /\ entry' = data
    /\ arg' = "str"
    /\ exc' = ""
    /\ UNCHANGED <<data, ncalls>>

\* one sub-extractor call of process_emr_text
Run(at, events, next) ==
    /\ pc = at
    /\ data' = Apply(data, events)
    /\ log' = log \o <<Called(at)>> \o events
    /\ pc' = next
    /\ UNCHANGED <<text, ncalls, now, entry, arg, exc>>

RunPatientInfo ==
    /\ extract_patient_info_raises(arg) = ""
    /\ Run("extract_patient_info", extract_patient_info(text), "extract_asa_status")
RunAsaStatus == Run("extract_asa_status", extract_asa_status(text), "extract_allergies")
RunAllergies == Run("extract_allergies", extract_allergies(text), "extract_medications")
RunMedications ==
    Run("extract_medications", extract_medications(text), "extract_comorbidities")
RunComorbidities ==
    Run("extract_comorbidities", extract_comorbidities(text), "extract_lab_values")
RunLabValues == Run("extract_lab_values", extract_lab_values(text), "extract_surgical_plan")
RunSurgicalPlan ==
    Run("extract_surgical_plan", extract_surgical_plan(text), "extract_airway_assessment")
RunAirwayAssessment ==
    Run("extract_airway_assessment", extract_airway_assessment(text), "assess_risks")
\* process_emr_text returning right after assess_risks, the metadata forgotten
RunAssessRisks_then_return == Run("assess_risks", assess_risks(text), "return")

RunAssessRisks == Run("assess_risks", assess_risks(text), "metadata")

AddMetadata ==
    /\ pc = "metadata"
    /\ data' = WithMetadata(data, Metadata(now))
    /\ pc' = "return"
    /\ UNCHANGED <<text, ncalls, now, log, entry, arg, exc>>

\* return self.insight.data: the call's locals end with it
Return ==
    /\ pc = "return"
    /\ pc' = "idle"
    /\ ncalls' = ncalls + 1
    /\ text' = ""
    /\ log' = <<>>
    /\ entry' = data
    /\ UNCHANGED <<data, now, arg, exc>>

\* the sub-extractors, in the order process_emr_text calls them
SubExtractors ==
    <<"extract_patient_info", "extract_asa_status", "extract_allergies",
      "extract_medications", "extract_comorbidities", "extract_lab_values",
      "extract_surgical_plan", "extract_airway_assessment", "assess_risks">>

\* the events of each sub-extractor on a text
EventsOn(emr) ==
    [extract_patient_info |-> extract_patient_info(emr),
     extract_asa_status |-> extract_asa_status(emr),
     extract_allergies |-> extract_allergies(emr),
     extract_medications |-> extract_medications(emr),
     extract_comorbidities |-> extract_comorbidities(emr),
     extract_lab_values |-> extract_lab_values(emr),
     extract_surgical_plan |-> extract_surgical_plan(emr),
     extract_airway_assessment |-> extract_airway_assessment(emr),
     assess_risks |-> assess_risks(emr)]

\* the leaves the body of each sub-extractor has an assignment to
Owns ==
    [extract_patient_info |-> Under(<<"patient_info">>, {"age", "weight", "height", "gender"}),
     extract_asa_status |-> {<<"pre_operative", "asa_status">>},
     extract_allergies |-> {<<"pre_operative", "allergies">>},
     extract_medications |->
        Under(<<"pre_operative", "medications">>, {"anticoagulants", "insulin", "cardiac_meds"}),
     extract_comorbidities |->
        Under(<<"pre_operative", "comorbidities">>, {"cardiac", "pulmonary", "renal", "endocrine"}),
     extract_lab_values |->
        Under(<<"pre_operative", "laboratory_values">>,
              {"hemoglobin", "platelet_count", "inr_pt_ptt", "creatinine"}),
     extract_surgical_plan |->
        Under(<<"surgical_plan">>, {"procedure", "surgical_position", "estimated_duration"}),
     extract_airway_assessment |->
        Under(<<"pre_operative", "airway_assessment">>,
              {"mallampati", "mouth_opening", "predicted_difficulty"}),
     assess_risks |->
        Under(<<"risk_assessment">>, {"aspiration_risk", "cardiac_risk", "bleeding_risk"})]

\* process_emr_text called with an object that is not a str
NonTextTypes == {"NoneType", "int", "bytes"}

process_non_text(type) ==
    /\ pc = "idle"
    /\ now < MaxCalls
    /\ pc' = "extract_patient_info"
    /\ text' = ""
    /\ now' = now + 1
    /\ log' = <<>>
    /\ entry' = data
    /\ arg' = type
    /\ exc' = ""
    /\ UNCHANGED <<data, ncalls>>

\* a try/except around each sub-extractor call that goes on with the next one
after_exception_continue(at) == "extract_asa_status"

\* where an exception raised by the statement at `at` leaves process_emr_text:
\* the method has no try/except, the exception ends the call
after_exception(at) == "idle"

\* extract_patient_info raises: nothing is assigned, the call ends
RaisePatientInfo ==
    /\ pc = "extract_patient_info"
    /\ extract_patient_info_raises(arg) # ""
    /\ exc' = extract_patient_info_raises(arg)
    /\ pc' = after_exception(pc)
    /\ UNCHANGED <<data, text, ncalls, now, log, entry, arg>>

\* the statements of a call after its entry
Body ==
    \/ RunPatientInfo \/ RunAsaStatus \/ RunAllergies \/ RunMedications
    \/ RunComorbidities \/ RunLabValues \/ RunSurgicalPlan \/ RunAirwayAssessment
    \/ RunAssessRisks \/ AddMetadata \/ Return

(***************************************************************************)
(* Input texts: concatenations of at most MaxFrags fragments.              *)
(***************************************************************************)
RECURSIVE TextsOf(_, _)
TextsOf(frags, n) ==
    IF n = 0 THEN {""}
    ELSE LET shorter == TextsOf(frags, n - 1)
         IN  shorter \cup {t \o f : t \in shorter, f \in frags}

GeneralFrags == {"62 yo male. ", "ASA III. ", "hypertension. ", "Hgb 11.8. "}
GeneralTexts == TextsOf(GeneralFrags, MaxFrags)

Call == pc = "idle" /\ \E t \in GeneralTexts : process_emr_text(t)
Next == Call \/ Body
Spec == Init /\ [][Next]_vars

\* texts about allergies
AllergyFrags ==
    {"NKDA. ", "nka ", "Allergies: sulfa. ", "allergy: latex. ", "Allergies: not found. "}
CallAllergy == pc = "idle" /\ \E t \in TextsOf(AllergyFrags, MaxFrags) : process_emr_text(t)
NextAllergy == CallAllergy \/ Body
SpecAllergy == Init /\ [][NextAllergy]_vars

\* texts about the ASA class
AsaFrags ==
    {"ASA III", "ASA 2. ", "V", "asa class 2", "ASA status: 3", "ASA classification II"}
CallAsa == pc = "idle" /\ \E t \in TextsOf(AsaFrags, MaxFrags) : process_emr_text(t)
NextAsa == CallAsa \/ Body
SpecAsa == Init /\ [][NextAsa]_vars

\* texts about hemoglobin
LabFrags == {"Hemoglobin: 11.8", "hb 9. ", "5", " g/dL. "}
CallLab == pc = "idle" /\ \E t \in TextsOf(LabFrags, MaxFrags) : process_emr_text(t)
NextLab == CallLab \/ Body
SpecLab == Init /\ [][NextLab]_vars

\* texts about cardiac conditions
CardiacFrags == {"recent MI. ", "hypertension. ", "unstable angina. ", "heart failure. "}
CallCardiac == pc = "idle" /\ \E t \in TextsOf(CardiacFrags, MaxFrags) : process_emr_text(t)
NextCardiac == CallCardiac \/ Body
SpecCardiac == Init /\ [][NextCardiac]_vars

\* the text of the end-to-end scenario, and texts made of its sentences
ScenarioText ==
    "62 year old male. ASA III. NKDA. Medications: metoprolol, insulin glargine. "
    \o "History of hypertension, type 2 diabetes, chronic kidney disease. "
    \o "Hemoglobin 11.8, Creatinine 1.4."
ScenarioFrags ==
    {"62 year old male. ", "ASA III. NKDA. ", "Medications: metoprolol, insulin glargine. ",
     "Hemoglobin 11.8, Creatinine 1.4."}
ScenarioTexts == {ScenarioText} \cup TextsOf(ScenarioFrags, MaxFrags)
CallScenario == pc = "idle" /\ \E t \in ScenarioTexts : process_emr_text(t)
NextScenario == CallScenario \/ Body
SpecScenario == Init /\ [][NextScenario]_vars

\* calls with texts and with objects that are not text
InputFrags == {"62 yo male. ", "NKDA. ", "Hgb 11.8. "}
CallInput ==
    /\ pc = "idle"
    /\ \/ \E t \in TextsOf(InputFrags, MaxFrags) : process_emr_text(t)
       \/ \E type \in NonTextTypes : process_non_text(type)
NextInput == CallInput \/ Body \/ RaisePatientInfo
SpecInput == Init /\ [][NextInput]_vars

\* texts with several candidates for one leaf and with evidence for several
\* sub-extractors
PassFrags == {"62 yo male. ", "Age: 45. ", "Allergies: sulfa. ", "metformin, recent MI. "}
CallPass == pc = "idle" /\ \E t \in TextsOf(PassFrags, MaxFrags) : process_emr_text(t)
NextPass == CallPass \/ Body
SpecPass == Init /\ [][NextPass]_vars

\* texts about medications
MedFrags ==
    {"Warfarin, aspirin. ", "insulin glargine. ", "METOPROLOL, lisinopril. ", "metformin. "}
CallMeds == pc = "idle" /\ \E t \in TextsOf(MedFrags, MaxFrags) : process_emr_text(t)
NextMeds == CallMeds \/ Body
SpecMeds == Init /\ [][NextMeds]_vars

\* texts about the gender
GenderFrags == {"Sex: F. ", "male. ", "gender: m ", "Female patient. "}
CallGender == pc = "idle" /\ \E t \in TextsOf(GenderFrags, MaxFrags) : process_emr_text(t)
NextGender == CallGender \/ Body
SpecGender == Init /\ [][NextGender]_vars

\* texts about the surgical position
PositionFrags == {"reverse Trendelenburg. ", "prone. ", "beach chair, sitting. ", "supine. "}
CallPosition == pc = "idle" /\ \E t \in TextsOf(PositionFrags, MaxFrags) : process_emr_text(t)
NextPosition == CallPosition \/ Body
SpecPosition == Init /\ [][NextPosition]_vars

\* texts about the three risks
RiskFrags ==
    {"not NPO. ", "fasting, hypertension. ", "recent MI. ", "on anticoagulant therapy. "}
CallRisk == pc = "idle" /\ \E t \in TextsOf(RiskFrags, MaxFrags) : process_emr_text(t)
NextRisk == CallRisk \/ Body
SpecRisk == Init /\ [][NextRisk]_vars

\* texts about the airway
AirwayFrags ==
    {"Mallampati: 2. ", "Mallampati III. ", "mallampati: iv, short neck. ", "mouth opening 3 cm. "}
CallAirway == pc = "idle" /\ \E t \in TextsOf(AirwayFrags, MaxFrags) : process_emr_text(t)
NextAirway == CallAirway \/ Body
SpecAirway == Init /\ [][NextAirway]_vars

(***************************************************************************)
(* Properties.                                                             *)
(***************************************************************************)
\* the current call has assigned the leaf
Written(path) == \E i \in 1..Len(log) : log[i].k = "write" /\ log[i].leaf = path

\* the assignments of the current call to the leaf, in order
WritesTo(path) == SelectSeq(log, LAMBDA e : e.k = "write" /\ e.leaf = path)

\* the current call has searched a pattern of the named list
Searched(name) == \E i \in 1..Len(log) : log[i].k = "search" /\ log[i].leaf = <<name>>

\* the call has run all nine sub-extractors and attached the metadata: its
\* next step returns self.insight.data as it is
Returning == pc = "return"

AllSentinel(d) == \A p \in LeafPaths : Get(d, p) = Sentinel

\* what process_emr_text(emr) returns on an instance just constructed, at time t
FreshResult(emr, t) ==
    WithMetadata(
        Apply(ClinicalInsight,
              extract_patient_info(emr) \o extract_asa_status(emr) \o extract_allergies(emr)
              \o extract_medications(emr) \o extract_comorbidities(emr)
              \o extract_lab_values(emr) \o extract_surgical_plan(emr)
              \o extract_airway_assessment(emr) \o assess_risks(emr)),
        Metadata(t))

\* two records agree in everything but metadata.processed_timestamp
SameButTimestamp(d1, d2) ==
    /\ DOMAIN d1 = DOMAIN d2
    /\ \A p \in LeafPaths : Get(d1, p) = Get(d2, p)
    /\ d1.metadata.version = d2.metadata.version
    /\ d1.metadata.extraction_confidence = d2.metadata.extraction_confidence

\* C1: every call returns a record with every schema key and the metadata, in
\* which every leaf the call's text gave no evidence for (the call assigned
\* nothing to it) is the sentinel.
C1_CompleteWithSentinels ==
    Returning =>
        /\ \A p \in LeafPaths : HasPath(data, p)
        /\ HasPath(data, <<"metadata">>)
        /\ \A p \in LeafPaths : ~Written(p) => Get(data, p) = Sentinel

\* C2: when a call begins, the first one or a later one, every leaf of the
\* record is the sentinel.
C2_FreshAtCallStart == pc = "extract_patient_info" => AllSentinel(data)

\* C3: the record a call returns for a text is, timestamp aside, the record a
\* call on another (new) instance returns for the same text.
C3_Deterministic == Returning => SameButTimestamp(data, FreshResult(text, now))

\* C4: once a call has returned, no step changes a leaf of the returned record.
C4_ReturnedNotMutated ==
    [][ncalls > 0 => \A p \in LeafPaths : Get(Returned', p) = Get(Returned, p)]_vars

allergies_leaf == <<"pre_operative", "allergies">>
asa_leaf == <<"pre_operative", "asa_status">>
hemoglobin_leaf == <<"pre_operative", "laboratory_values", "hemoglobin">>
cardiac_leaf == <<"pre_operative", "comorbidities", "cardiac">>
cardiac_risk_leaf == <<"risk_assessment", "cardiac_risk">>

\* the text holds "nkda" or "nka" in some letter case
HasNkda(t) == Contains(lower(t), "nkda") \/ Contains(lower(t), "nka")

\* C5: a call whose text holds nkda or nka in any letter case returns
\* allergies = "NKDA (No Known Drug Allergies)" and has searched no allergy
\* pattern, whatever else the text holds and whatever the record held before.
C5_NkdaWins ==
    (Returning /\ HasNkda(text)) =>
        /\ Get(data, allergies_leaf) = NKDA
        /\ ~Searched("allergies")

\* C5 happens: a call on a text with NKDA and an allergy label, on a record
\* whose allergies leaf an earlier call had set from a label
C5_Witness ==
    /\ Returning
    /\ HasNkda(text)
    /\ Contains(lower(text), "allergies:")
    /\ Get(entry, allergies_leaf) = "Sulfa"
    /\ Get(data, allergies_leaf) = NKDA

\* the character at position i of t is, in either letter case, one the ASA
\* class pattern takes: I, V or 1 to 6
ClassCharAt(t, i) ==
    i <= Len(t) /\ UpperCh(Ch(t, i)) \in {"I", "V", "1", "2", "3", "4", "5", "6"}

\* phrase (compared in lower case when fold is TRUE) occurs in t, is not
\* directly followed by a class character, and no "ASA" in any letter case
\* begins before it
FirstAsaIs(t, phrase, fold) ==
    \E i \in 1..Len(t) :
        /\ At(IF fold THEN lower(t) ELSE t, i, phrase)
        /\ ~ClassCharAt(t, i + Len(phrase))
        /\ \A j \in 1..(i - 1) : ~At(upper(t), j, "ASA")

\* C6 as stated: every text that holds "ASA III" gets asa_status "ASA III".
C6_AsaIII_Anywhere ==
    (Returning /\ Contains(text, "ASA III")) => Get(data, asa_leaf) = "ASA III"

\* C6, amended: a text in which "ASA III" occurs with no further class
\* character (I, V, 1-6, either case) directly after it and no "ASA" (any
\* case) beginning before it gets asa_status "ASA III", whatever else precedes
\* or follows and whatever the record held.
C6_FirstAsaIII ==
    (Returning /\ FirstAsaIs(text, "ASA III", FALSE)) => Get(data, asa_leaf) = "ASA III"

\* C6 happens: such a call on a longer text, over another value an earlier
\* call had left
C6_Witness ==
    /\ Returning
    /\ FirstAsaIs(text, "ASA III", FALSE)
    /\ Len(text) > Len("ASA III")
    /\ Get(entry, asa_leaf) = "ASA 2"
    /\ Get(data, asa_leaf) = "ASA III"

\* the label-qualified forms of C7 and the class each names
LabelledForms ==
    {[phrase |-> "asa class 2", class |-> "2"],
     [phrase |-> "asa status: 3", class |-> "3"],
     [phrase |-> "asa classification ii", class |-> "II"]}

\* C7: a text whose first ASA mention is a label-qualified form, in any letter
\* case ("asa class 2", "ASA status: 3", "ASA classification II"), gets
\* asa_status "ASA <class>".
C7_LabelledAsa ==
    Returning =>
        \A f \in LabelledForms :
            FirstAsaIs(text, f.phrase, TRUE) => Get(data, asa_leaf) = "ASA " \o f.class

\* a hemoglobin label of the pattern begins at position j of the lower-cased text
HgbLabelAt(t, j) == \E l \in {"hemoglobin", "hgb", "hb"} : At(lower(t), j, l)

\* "Hemoglobin: 11.8" occurs in t, no digit directly after it, and no
\* hemoglobin label (hemoglobin, hgb, hb, any case) begins before it
FirstHgbIs118(t) ==
    \E i \in 1..Len(t) :
        /\ At(t, i, "Hemoglobin: 11.8")
        /\ ~(i + 16 <= Len(t) /\ Ch(t, i + 16) \in Digits)
        /\ \A j \in 1..(i - 1) : ~HgbLabelAt(t, j)

HasCardiacKeyword(t) ==
    \E i \in 1..Len(keywords.cardiac_conditions) :
        Contains(lower(t), lower(keywords.cardiac_conditions[i]))

\* the text holds a high-severity cardiac term
HasHighCardiacTerm(t) == AnyIn(high_cardiac_terms, lower(t))

\* C9: a call whose text holds no cardiac-condition keyword (and no
\* high-severity cardiac term either) returns comorbidities.cardiac and
\* risk_assessment.cardiac_risk at the sentinel.
C9_NoCardiacKeyword ==
    (Returning /\ ~HasCardiacKeyword(text) /\ ~HasHighCardiacTerm(text)) =>
        /\ Get(data, cardiac_leaf) = Sentinel
        /\ Get(data, cardiac_risk_leaf) = Sentinel

\* C10: a call whose text holds a high-severity term returns cardiac_risk
\* "High", also when keywords of the cardiac_conditions list are present; a call
\* assigns "Moderate" only when its text holds no high-severity term and holds
\* a cardiac-condition keyword; a call assigns cardiac_risk at most once.
C10_CardiacCascade ==
    Returning =>
        /\ HasHighCardiacTerm(text) => Get(data, cardiac_risk_leaf) = "High"
        /\ Len(WritesTo(cardiac_risk_leaf)) <= 1
        /\ (\E i \in 1..Len(log) : log[i] = Wr(cardiac_risk_leaf, "Moderate")) =>
               (~HasHighCardiacTerm(text) /\ HasCardiacKeyword(text))

\* C10 happens: a call on a text with "recent MI" and "hypertension", which the
\* comorbidity classifier has found, over a "Moderate" an earlier call had left
C10_Witness ==
    /\ Returning
    /\ Contains(lower(text), "recent mi")
    /\ Contains(lower(text), "hypertension")
    /\ Get(data, cardiac_leaf) = "hypertension"
    /\ Get(entry, cardiac_risk_leaf) = "Moderate"
    /\ Get(data, cardiac_risk_leaf) = "High"

\* C11: the first call on a new instance, on the text of the end-to-end
\* scenario, returns age "62 years", gender "Male", asa_status "ASA III",
\* allergies "NKDA (No Known Drug Allergies)", cardiac_meds with "Metoprolol",
\* medications.insulin with "Insulin", comorbidities.cardiac with
\* "hypertension", comorbidities.renal with a kidney-disease term, hemoglobin
\* "11.8 g/dL" and creatinine "1.4 mg/dL".
C11_Scenario ==
    (Returning /\ ncalls = 0 /\ text = ScenarioText) =>
        /\ data.patient_info.age = "62 years"
        /\ data.patient_info.gender = "Male"
        /\ data.pre_operative.asa_status = "ASA III"
        /\ data.pre_operative.allergies = "NKDA (No Known Drug Allergies)"
        /\ Contains(data.pre_operative.medications.cardiac_meds, "Metoprolol")
        /\ Contains(data.pre_operative.medications.insulin, "Insulin")
        /\ Contains(data.pre_operative.comorbidities.cardiac, "hypertension")
        /\ Contains(data.pre_operative.comorbidities.renal, "kidney disease")
        /\ data.pre_operative.laboratory_values.hemoglobin = "11.8 g/dL"
        /\ data.pre_operative.laboratory_values.creatinine = "1.4 mg/dL"

\* C11 happens: the first call of an instance is about to return the record
\* of the scenario text, every leaf of which was the sentinel at its start
C11_Witness ==
    /\ Returning
    /\ ncalls = 0
    /\ text = ScenarioText
    /\ AllSentinel(entry)
    /\ ~AllSentinel(data)

\* C12: a call whose argument is not text (None, a number, bytes) ends with an
\* exception; it searches nothing (the argument is not converted to text),
\* assigns nothing and never comes to return a record; and a call whose
\* argument is text never ends with an exception.
C12_NonTextFails ==
    /\ (arg # "str" /\ pc = "idle") => exc \in {"AttributeError", "TypeError"}
    /\ arg # "str" => (pc \in {"idle", "extract_patient_info"} /\ log = <<>> /\ data = entry)
    /\ exc # "" => arg # "str"

\* C12 happens: a call with bytes has ended with an exception, on an instance
\* that an earlier call on a text had returned a record from
C12_Witness ==
    /\ pc = "idle"
    /\ arg = "bytes"
    /\ exc = "TypeError"
    /\ ncalls > 0
    /\ ~AllSentinel(data)

\* C18: the step in which a sub-extractor raises ends the call: the call is
\* left (no further sub-extractor runs), the record is as it was (no metadata
\* is attached) and no call has returned by it.
C18_FailureAborts ==
    [][exc' # "" => (pc' = "idle" /\ data' = data /\ ncalls' = ncalls)]_vars

\* C18 happens: the first call of an instance has ended with the exception
\* of extract_patient_info; the record has no metadata and every leaf is the
\* sentinel
C18_Witness ==
    /\ exc = "AttributeError"
    /\ pc = "idle"
    /\ ncalls = 0
    /\ now = 1
    /\ "metadata" \notin DOMAIN data
    /\ AllSentinel(data)

\* C13: in a returned record no leaf is the empty string, and a leaf is the
\* sentinel exactly when the call matched no evidence for it (assigned
\* nothing to it): no value a sub-extractor assigns on a match is the sentinel.
C13_SentinelDistinct ==
    Returning =>
        \A p \in LeafPaths :
            /\ Get(data, p) # ""
            /\ Get(data, p) = Sentinel <=> ~Written(p)

\* the pattern lists searched by a first-match loop, each with the leaf it
\* fills and the string it is searched in
PatternLists(t) ==
    LET text_lower == lower(t)
    IN  {[name |-> "age", leaf |-> <<"patient_info", "age">>,
          pats |-> patterns.age, subject |-> text_lower],
         [name |-> "weight", leaf |-> <<"patient_info", "weight">>,
          pats |-> patterns.weight, subject |-> text_lower],
         [name |-> "height", leaf |-> <<"patient_info", "height">>,
          pats |-> patterns.height, subject |-> text_lower],
         [name |-> "gender", leaf |-> <<"patient_info", "gender">>,
          pats |-> patterns.gender, subject |-> text_lower],
         [name |-> "asa", leaf |-> asa_leaf, pats |-> patterns.asa, subject |-> upper(t)]}

\* the searches of the named pattern list the current call has made
SearchCount(name) ==
    Len(SelectSeq(log, LAMBDA e : e.k = "search" /\ e.leaf = <<name>>))

\* the current call has searched a pattern of the list after assigning the leaf
SearchedAfterWrite(name, path) ==
    \E j \in 1..Len(log) :
        /\ log[j].k = "search" /\ log[j].leaf = <<name>>
        /\ \E i \in 1..(j - 1) : log[i].k = "write" /\ log[i].leaf = path

\* C14: within a call every leaf is assigned at most once and holds the
\* assigned value from then on; a pattern list is not searched again once
\* its leaf is assigned; and at the end of the call the value of a
\* first-match list comes from the first pattern of the list, in list order,
\* that matches the text (all patterns were tried when the leaf is not assigned).
C14_FirstMatchWins ==
    /\ \A i \in 1..Len(log) :
           log[i].k = "write" =>
               /\ \A j \in 1..(i - 1) : ~(log[j].k = "write" /\ log[j].leaf = log[i].leaf)
               /\ Get(data, log[i].leaf) = log[i].val
    /\ ~SearchedAfterWrite("allergies", allergies_leaf)
    /\ ~SearchedAfterWrite("procedure", <<"surgical_plan", "procedure">>)
    /\ Returning =>
           \A l \in PatternLists(text) :
               LET n == SearchCount(l.name)
               IN  /\ ~SearchedAfterWrite(l.name, l.leaf)
                   /\ \A i \in 1..(n - 1) : ~search(l.pats[i], l.subject).ok
                   /\ IF Written(l.leaf)
                      THEN n >= 1 /\ search(l.pats[n], l.subject).ok
                      ELSE n = Len(l.pats) /\ ~search(l.pats[n], l.subject).ok

\* C14 happens: a call on a text with two ages, "Age: 45" that the second age
\* pattern matches and, after it, "62 yo" that the first one matches, has kept
\* the value of the first pattern and searched no other
C14_Witness ==
    /\ Returning
    /\ text = "Age: 45. 62 yo male. "
    /\ data.patient_info.age = "62 years"
    /\ SearchCount("age") = 1

\* the leaves assigned by a sequence of events
Assigns(events) ==
    {events[i].leaf : i \in {i \in 1..Len(events) : events[i].k = "write"}}

\* the sub-extractor that made the i-th event of the current call: the one
\* named by the last "call" event before it
CallerOf(i) ==
    LET j == CHOOSE j \in 1..i :
                 /\ log[j].k = "call"
                 /\ \A k \in (j + 1)..i : log[k].k # "call"
    IN  log[j].leaf[1]

\* C15: the leaf sets of the nine sub-extractors are pairwise disjoint; every
\* assignment of a call is made by a sub-extractor to a leaf of its own set;
\* and every leaf the call has not assigned is as it was when the call began
\* (no sub-extractor changes a leaf of another).
C15_DisjointWrites ==
    /\ \A e, f \in DOMAIN Owns : e # f => Owns[e] \cap Owns[f] = {}
    /\ \A i \in 1..Len(log) :
           log[i].k = "write" => log[i].leaf \in Owns[CallerOf(i)]
    /\ \A p \in LeafPaths \ Assigns(log) : Get(data, p) = Get(entry, p)

\* C15 happens: a call in which three sub-extractors have assigned leaves
\* (demographics, medications, comorbidities) is at its end, and a leaf of a
\* fourth, which has assigned nothing, keeps the value an earlier call gave it
C15_Witness ==
    /\ Returning
    /\ Written(<<"patient_info", "age">>)
    /\ Written(<<"pre_operative", "medications", "insulin">>)
    /\ Written(<<"pre_operative", "comorbidities", "endocrine">>)
    /\ ~Written(allergies_leaf)
    /\ Get(data, allergies_leaf) = "Sulfa"

\* the events of the sub-extractors (ev: the events of each), run one after
\* another in the order given
RECURSIVE RunInOrder(_, _)
RunInOrder(order, ev) ==
    IF Len(order) = 0 THEN <<>>
    ELSE ev[Head(order)] \o RunInOrder(Tail(order), ev)

\* the fixed order with the i-th and the j-th sub-extractor exchanged
Transposed(i, j) ==
    [k \in 1..Len(SubExtractors) |->
        SubExtractors[IF k = i THEN j ELSE IF k = j THEN i ELSE k]]

\* the fixed order backwards
Reversed == [k \in 1..Len(SubExtractors) |-> SubExtractors[Len(SubExtractors) + 1 - k]]

\* the orders tried: every exchange of two sub-extractors, and the reverse order
Orders ==
    {Transposed(i, j) : i, j \in 1..Len(SubExtractors)} \cup {Reversed}

\* the r-th event of each sub-extractor that has one, in the order given
RECURSIVE Round(_, _, _)
Round(order, ev, r) ==
    IF Len(order) = 0 THEN <<>>
    ELSE (IF r <= Len(ev[Head(order)]) THEN <<ev[Head(order)][r]>> ELSE <<>>)
             \o Round(Tail(order), ev, r)

\* the sub-extractors running concurrently, taking turns in the order given:
\* in round r each performs its r-th event
RECURSIVE TakingTurns(_, _, _)
TakingTurns(order, ev, r) ==
    LET round == Round(order, ev, r)
    IN  IF round = <<>> THEN <<>> ELSE round \o TakingTurns(order, ev, r + 1)

\* C16: the record a call returns (the sub-extractors run in the fixed order)
\* is the record that results, from the same starting record and text, when
\* the nine run one after another in any of the other orders, and when they
\* run concurrently taking turns event by event (in the fixed order and in
\* the reverse order); no two of them assign the same leaf, so that no
\* interleaving of their assignments can differ.
C16_OrderIndependent ==
    Returning =>
        LET ev == EventsOn(text)
            sequential == Apply(entry, RunInOrder(SubExtractors, ev))
        IN  /\ \A p \in LeafPaths : Get(data, p) = Get(sequential, p)
            /\ \A order \in Orders : Apply(entry, RunInOrder(order, ev)) = sequential
            /\ Apply(entry, TakingTurns(SubExtractors, ev, 1)) = sequential
            /\ Apply(entry, TakingTurns(Reversed, ev, 1)) = sequential
            /\ \A e, f \in DOMAIN ev : e # f => Assigns(ev[e]) \cap Assigns(ev[f]) = {}

\* C16 happens: a call in which four sub-extractors have assigned leaves
\* (demographics, medications, comorbidities, risks), over values an earlier
\* call had left, is at its end
C16_Witness ==
    /\ Returning
    /\ Written(<<"patient_info", "age">>)
    /\ Written(<<"pre_operative", "medications", "insulin">>)
    /\ Written(<<"pre_operative", "comorbidities", "endocrine">>)
    /\ Written(cardiac_risk_leaf)
    /\ ~AllSentinel(entry)

\* the sub-extractors the current call has run so far, in the order they ran
HaveRun ==
    LET calls == SelectSeq(log, LAMBDA e : e.k = "call")
    IN  [i \in 1..Len(calls) |-> calls[i].leaf[1]]

\* the metadata of the current call is in the record
MetadataAttached ==
    /\ "metadata" \in DOMAIN data
    /\ data.metadata.processed_timestamp = now
    /\ data.metadata.version = "1.0"
    /\ data.metadata.extraction_confidence = "Automated extraction - verify critical values"

\* C17: at every point of a call the sub-extractors that have run are the
\* first ones of the fixed order, each once, in that order, and the one about
\* to run is the next of the order; the metadata of the call is in the record
\* only when all nine have run, and is in it (timestamp, version "1.0", the
\* fixed disclaimer) when the call returns; a call returns only from there,
\* and returns the record as it then is.
C17_FixedOrderThenMetadata ==
    /\ [](pc # "idle" =>
            /\ HaveRun = SubSeq(SubExtractors, 1, Len(HaveRun))
            /\ Len(HaveRun) < Len(SubExtractors) => pc = SubExtractors[Len(HaveRun) + 1]
            /\ Len(HaveRun) = Len(SubExtractors) => pc \in {"metadata", "return"}
            /\ MetadataAttached <=> pc = "return")
    /\ [][ncalls' # ncalls =>
            (pc = "return" /\ MetadataAttached /\ ncalls' = ncalls + 1 /\ data' = data)]_vars

\* C17 happens: the second call of an instance has run the nine
\* sub-extractors and attached its own metadata over those of the first call
C17_Witness ==
    /\ Returning
    /\ ncalls = 1
    /\ HaveRun = SubExtractors
    /\ data.metadata.processed_timestamp = 2
    /\ Written(<<"patient_info", "age">>)

\* the three medication lists, each with the leaf it fills
MedicationLists ==
    {[leaf |-> <<"pre_operative", "medications", "anticoagulants">>,
      words |-> keywords.anticoagulants],
     [leaf |-> <<"pre_operative", "medications", "insulin">>, words |-> diabetes_agents],
     [leaf |-> <<"pre_operative", "medications", "cardiac_meds">>, words |-> cardiac_meds]}

\* the keywords of the list, from the i-th on, that occur in the string,
\* title-cased and separated by ", " (first: nothing is listed yet)
RECURSIVE Listed(_, _, _, _)
Listed(words, s, i, first) ==
    IF i > Len(words) THEN ""
    ELSE IF Contains(s, words[i])
         THEN (IF first THEN "" ELSE ", ") \o title(words[i]) \o Listed(words, s, i + 1, FALSE)
         ELSE Listed(words, s, i + 1, first)

\* C19: at the end of a call, for each of the three medication lists: when
\* keywords of the list occur in the lower-cased text, the field is all of
\* them, title-cased, in list order, joined with ", " (whatever the other
\* lists hit); and the field is the sentinel only when none occurs.
C19_Medications ==
    Returning =>
        LET text_lower == lower(text)
        IN  \A l \in MedicationLists :
                LET listed == Listed(l.words, text_lower, 1, TRUE)
                IN  /\ listed # "" => Get(data, l.leaf) = listed
                    /\ Get(data, l.leaf) = Sentinel => listed = ""

\* C19 happens: a call on a text with two anticoagulants and, in capitals
\* and not in list order, two cardiac medications
C19_Witness ==
    /\ Returning
    /\ text = "Warfarin, aspirin. METOPROLOL, lisinopril. "
    /\ data.pre_operative.medications.anticoagulants = "Warfarin, Aspirin"
    /\ data.pre_operative.medications.cardiac_meds = "Lisinopril, Metoprolol"

\* the four comorbidity lists, each with the leaf it fills
ComorbidityLists ==
    {[leaf |-> cardiac_leaf, words |-> keywords.cardiac_conditions],
     [leaf |-> <<"pre_operative", "comorbidities", "pulmonary">>,
      words |-> keywords.pulmonary_conditions],
     [leaf |-> <<"pre_operative", "comorbidities", "renal">>,
      words |-> keywords.renal_conditions],
     [leaf |-> <<"pre_operative", "comorbidities", "endocrine">>, words |-> keywords.diabetes]}

\* the keyword occurs in the text, in any letter case
Present(word, t) == Contains(lower(t), lower(word))

\* C20: at the end of a call, for each of the four comorbidity lists: every
\* keyword of the list that occurs in the text, in any letter case, is in the
\* field; and the field is the sentinel only when no keyword of the list occurs.
C20_Comorbidities ==
    Returning =>
        \A l \in ComorbidityLists :
            \A i \in 1..Len(l.words) :
                Present(l.words[i], text) =>
                    /\ Contains(Get(data, l.leaf), l.words[i])
                    /\ Get(data, l.leaf) # Sentinel

gender_leaf == <<"patient_info", "gender">>

\* the gender a captured token stands for
GenderFor(token) == IF token = "male" \/ token = "m" THEN "Male" ELSE "Female"

\* C21: at the end of a call: when the label pattern ("gender:"/"sex:")
\* matches the lower-cased text, its token decides the gender and the
\* fallback pattern has not been searched; when only the word-boundary
\* fallback matches, its token decides; the token is mapped to "Male" exactly
\* when it is male or m, else to "Female"; when neither pattern matches, the
\* leaf is the sentinel.
C21_Gender ==
    Returning =>
        LET s == lower(text)
            labelled == search(patterns.gender[1], s)
            bare == search(patterns.gender[2], s)
        IN  /\ labelled.ok =>
                   /\ Get(data, gender_leaf) = GenderFor(group1(labelled, s))
                   /\ SearchCount("gender") = 1
            /\ (~labelled.ok /\ bare.ok) =>
                   /\ Get(data, gender_leaf) = GenderFor(group1(bare, s))
                   /\ SearchCount("gender") = 2
            /\ (~labelled.ok /\ ~bare.ok) => Get(data, gender_leaf) = Sentinel

\* the trimmed span the i-th allergy pattern captures in s ("" without a match)
AllergySpan(i, s) ==
    LET m == search(patterns.allergies[i], s)
    IN  IF m.ok THEN strip(group1(m, s)) ELSE ""

\* C22: at the end of a call whose text holds neither nkda nor nka: when
\* some allergy pattern captures a span that is longer than 2 characters
\* after trimming, allergies is the title-cased span of the first such
\* pattern and the patterns up to that one, no further one, have been
\* searched (a shorter span did not stop the search); when no pattern
\* captures such a span, allergies is the sentinel.
C22_AllergySpan ==
    (Returning /\ ~HasNkda(text)) =>
        LET s == lower(text)
            kept == {i \in 1..Len(patterns.allergies) : Len(AllergySpan(i, s)) > 2}
        IN  IF kept # {}
            THEN LET first == CHOOSE i \in kept : \A j \in kept : i <= j
                 IN  /\ Get(data, allergies_leaf) = title(AllergySpan(first, s))
                     /\ SearchCount("allergies") = first
            ELSE Get(data, allergies_leaf) = Sentinel

position_leaf == <<"surgical_plan", "surgical_position">>

\* the fixed list of standard positions, in the order of the scan
StandardPositions ==
    <<"supine", "prone", "lateral", "lithotomy", "trendelenburg",
      "reverse trendelenburg", "sitting", "beach chair">>

\* the positions of the list found in the text, by their place in the list
PositionsIn(t) ==
    {i \in 1..Len(StandardPositions) : Contains(lower(t), StandardPositions[i])}

\* C23: the surgical position is single-valued: the leaf is always the
\* sentinel or one keyword of the list title-cased, never several joined; and
\* at the end of a call whose text holds a keyword of the list, the leaf is
\* the title-cased keyword that comes first in the list among those found,
\* assigned once by this call.
C23_SinglePosition ==
    /\ \/ Get(data, position_leaf) = Sentinel
       \/ \E i \in 1..Len(StandardPositions) :
              Get(data, position_leaf) = title(StandardPositions[i])
    /\ (Returning /\ PositionsIn(text) # {}) =>
           LET first == CHOOSE i \in PositionsIn(text) : \A j \in PositionsIn(text) : i <= j
           IN  /\ Get(data, position_leaf) = title(StandardPositions[first])
               /\ Len(SelectSeq(log, LAMBDA e : e.k = "write" /\ e.leaf = position_leaf)) = 1

\* a call on a text with several positions (prone before supine) ends with
\* the one that comes first in the list
C23_Witness ==
    /\ Returning
    /\ text = "prone. supine. "
    /\ Get(data, position_leaf) = "Supine"

\* C30: surgical_position is never "Reverse Trendelenburg"; at the end of a
\* call whose text names reverse Trendelenburg the leaf is "Trendelenburg",
\* unless a position listed before trendelenburg (supine, prone, lateral,
\* lithotomy) also occurs in the text, in which case it is that position.
C30_ReverseUnreachable ==
    /\ Get(data, position_leaf) # "Reverse Trendelenburg"
    /\ (Returning /\ Contains(lower(text), "reverse trendelenburg")) =>
           IF \E w \in {"supine", "prone", "lateral", "lithotomy"} : Contains(lower(text), w)
           THEN Get(data, position_leaf) \in {"Supine", "Prone", "Lateral", "Lithotomy"}
           ELSE Get(data, position_leaf) = "Trendelenburg"

\* a call on a text naming only reverse Trendelenburg ends with "Trendelenburg"
C30_Witness ==
    /\ Returning
    /\ text = "reverse Trendelenburg. "
    /\ Get(data, position_leaf) = "Trendelenburg"

aspiration_leaf == <<"risk_assessment", "aspiration_risk">>
bleeding_leaf == <<"risk_assessment", "bleeding_risk">>

\* the text holds one of the words, in some letter case
HoldsAny(words, t) == \E w \in words : Contains(lower(t), w)

ElevatedAspirationTerms == {"not npo", "recent meal", "full stomach", "gastroparesis", "gerd"}
FastingTerms == {"npo", "fasting"}

\* C24: at the end of a call aspiration_risk is "Elevated" when the text
\* holds an elevated-risk term (also when it holds a fasting term as well,
\* as "not NPO" does), "Standard" when it holds a fasting term and no
\* elevated-risk term, and the sentinel when it holds neither.
C24_AspirationCascade ==
    Returning =>
        Get(data, aspiration_leaf) =
            IF HoldsAny(ElevatedAspirationTerms, text) THEN "Elevated"
            ELSE IF HoldsAny(FastingTerms, text) THEN "Standard"
            ELSE Sentinel

\* C28: in every returned record, comorbidities.cardiac being populated
\* implies cardiac_risk is "High" or "Moderate"; and in every state each risk
\* leaf holds a value of its tier set.
C28_RiskTiers ==
    /\ (Returning /\ Get(data, cardiac_leaf) # Sentinel) =>
           Get(data, cardiac_risk_leaf) \in {"High", "Moderate"}
    /\ Get(data, aspiration_leaf) \in {Sentinel, "Elevated", "Standard"}
    /\ Get(data, cardiac_risk_leaf) \in {Sentinel, "High", "Moderate"}
    /\ Get(data, bleeding_leaf) \in {Sentinel, "Elevated"}

\* a second call on a text without any cardiac term returns the cardiac
\* condition and the cardiac risk of the first call
C28_Witness ==
    /\ Returning
    /\ ncalls = 1
    /\ text = "not NPO. "
    /\ Get(data, cardiac_leaf) = "hypertension"
    /\ Get(data, cardiac_risk_leaf) = "Moderate"
    /\ Get(data, aspiration_leaf) = "Elevated"

anticoagulants_leaf == <<"pre_operative", "medications", "anticoagulants">>

BleedingTerms == {"anticoagulant", "bleeding disorder", "thrombocytopenia"}

\* the text names a drug of the anticoagulant list (warfarin, heparin, ...)
NamesAnticoagulant(t) ==
    \E i \in 1..Len(keywords.anticoagulants) : Contains(lower(t), keywords.anticoagulants[i])

\* C25: at the end of a call bleeding_risk is "Elevated" when the text holds
\* an anticoagulant, bleeding-disorder or thrombocytopenia term, in
\* particular whenever medications.anticoagulants is populated (the text
\* names warfarin, heparin, ...), and the sentinel when the text holds no
\* such term.
C25_BleedingRisk ==
    Returning =>
        /\ HoldsAny(BleedingTerms, text) => Get(data, bleeding_leaf) = "Elevated"
        /\ Get(data, anticoagulants_leaf) # Sentinel => Get(data, bleeding_leaf) = "Elevated"
        /\ (~HoldsAny(BleedingTerms, text) /\ ~NamesAnticoagulant(text)) =>
               Get(data, bleeding_leaf) = Sentinel

mallampati_leaf == <<"pre_operative", "airway_assessment", "mallampati">>

\* "Mallampati" followed by a class token: an arabic digit 1-4 or a roman
\* numeral I-IV, here in lower case, standing as a word of its own
ClassTokenForm ==
    <<Lit("mallampati"), OptLit(":"), Star(S),
      Grp(<<Alt(<< <<Lit("iii")>>, <<Lit("ii")>>, <<Lit("iv")>>, <<Lit("i")>>,
                   <<Cls({"1", "2", "3", "4"})>> >>)>>),
      WordB>>

\* C26: at the end of a call whose text gives "Mallampati" followed by a
\* class token (1-4 or I-IV, in any letter case), mallampati is "Class "
\* followed by that token (letter case apart); at the end of a call whose
\* text gives no such token, mallampati is the sentinel.
C26_Mallampati ==
    Returning =>
        LET s == lower(text)
            m == search(ClassTokenForm, s)
        IN  IF m.ok
            THEN lower(Get(data, mallampati_leaf)) = "class " \o group1(m, s)
            ELSE Get(data, mallampati_leaf) = Sentinel

\* the leaves of the schema no sub-extractor has an assignment to
NeverWritten ==
    {<<"pre_operative", "medications", "other_relevant">>,
     <<"pre_operative", "device_implants">>,
     <<"pre_operative", "npo_status">>,
     <<"risk_assessment", "difficult_airway">>}
    \cup Under(<<"pre_operative", "comorbidities">>, {"hepatic", "neurologic"})
    \cup Under(<<"pre_operative", "airway_assessment">>,
               {"neck_mobility", "thyromental_distance", "dentition"})
    \cup Under(<<"pre_operative", "laboratory_values">>, {"glucose", "electrolytes"})
    \cup Under(<<"surgical_plan">>, {"surgeon", "approach"})
    \cup Under(<<"intra_operative">>,
               {"special_monitoring", "vascular_access", "blood_products",
                "regional_anesthesia", "temperature_management", "fluid_management"})
    \cup Under(<<"post_operative">>,
               {"planned_disposition", "pain_management", "icu_monitoring",
                "ventilator_weaning"})

\* C27: in every state of every sequence of calls, each leaf that no
\* sub-extractor writes holds the sentinel, risk_assessment.difficult_airway
\* included even when predicted_difficulty is "Potentially difficult"; these
\* leaves are leaves of the schema.
C27_NeverWritten ==
    /\ NeverWritten \subseteq LeafPaths
    /\ \A p \in NeverWritten : Get(data, p) = Sentinel

\* a second call ends with a predicted difficulty, and a Mallampati class kept
\* from the first call, while difficult_airway is still the sentinel
C27_Witness ==
    /\ Returning
    /\ ncalls = 1
    /\ Get(data, <<"pre_operative", "airway_assessment", "predicted_difficulty">>)
           = "Potentially difficult"
    /\ Get(data, mallampati_leaf) = "Class 2"
    /\ Get(data, <<"risk_assessment", "difficult_airway">>) = Sentinel

\* C29: on one instance the record only accumulates: no step of any call
\* takes a leaf that holds a value other than the sentinel back to the
\* sentinel, and no step of a call on the empty text changes a leaf.
C29_OnlyAccumulates ==
    [][\A p \in LeafPaths :
          /\ Get(data, p) # Sentinel => Get(data', p) # Sentinel
          /\ text = "" => Get(data', p) = Get(data, p)]_vars

=============================================================================
